---- MODULE Spec2Model ----
(***************************************************************************)
(* A model of gargs: the record scanner and command generator of           *)
(* src/main.go, the command runner (Run, oneRun), the worker pools         *)
(* (Runner, oRunner, enumerate, oRun) of src/process/process.go and the    *)
(* output drain of run() in src/main.go.                                   *)
(*                                                                         *)
(* The module holds several specifications over one set of variables:      *)
(*   SpecRun   one call of process.Run (the retry loop over oneRun)        *)
(*   SpecMain  run() of main.go: commands run by Run, published on the     *)
(*             output channel and consumed by the drain loop               *)
(*   Spec      process.Runner / oRunner: enumerate, P workers, the ordered *)
(*             drain goroutine, the closer goroutine, a caller that        *)
(*             receives and may close cancel                               *)
(*   SpecScan  the split function getScanner installs, driven by           *)
(*             bufio.Scanner                                               *)
(*   SpecGen   genCommands                                                 *)
(* A specification leaves the variables of the others at their idle value. *)
(***************************************************************************)
EXTENDS Integers, Sequences, FiniteSets, TLC

VARIABLES
    \* ---- process.Run (one call) ----
    runPc,      \* position of the goroutine that calls Run
    optsNil,    \* Run was called with opts == nil
    optRetries, \* opts.Retries
    retries,    \* the local variable retries of Run
    c,          \* the local variable c of Run: the latest attempt's Command
    attempts,   \* history (SpecRun): the Command each attempt of the call returned
    curCmd,     \* the command (its emission index) the call is running
    files,      \* temp files that exist on disk (ids <<cmd, attempt>>)
    garbage,    \* temp files whose *Command is no longer referenced
    \* ---- run() of main.go ----
    mainPc,     \* position of the drain loop of run()
    nCmds,      \* how many commands the generator produces
    StopOnError,\* args.StopOnError
    logSet,     \* args.log != nil
    stdoutCh,   \* buffer of the channel returned by Runner
    stdoutClosed,
    p,          \* the loop variable p of the drain
    ExitCode,   \* the global ExitCode of main.go
    fails,      \* the local variable fails of run()
    sink,       \* what io.Copy wrote to os.Stdout: the commands, in order
    logLines,   \* what was written to args.log
    consumed,   \* history: every result the drain took from the channel
    \* ---- process.Runner / oRunner ----
    Ordered,    \* opts.Ordered
    NumProcs,   \* runtime.GOMAXPROCS(0)
    nIn,        \* how many commands the caller's channel delivers
    cancelClosed, \* the caller closed cancel
    ePc,        \* position of the goroutine of enumerate
    eI,         \* its local variable i: commands received so far
    icClosed,   \* the channel enumerate returns (icommands) is closed
    istdout,    \* buffer of istdout: per-command channels, named by command
    istdoutClosed,
    wPc,        \* position of each worker
    wCmd,       \* the istring each worker holds
    dPc,        \* position of the goroutine that drains istdout (oRunner)
    dCh,        \* its loop variable ch, then the Command received from it
    closerPc,   \* position of the goroutine that closes stdout (Runner)
    outCh,      \* buffer of stdout, the channel Runner returns
    outClosed,
    panicked,   \* "" or the run-time panic that ended the process
    runs,       \* history: how often Run was called for each command
    takenBy,    \* history: the workers that received each command
    chanLog,    \* history: every Command sent on stdout, in order
    received,   \* history: every Command the caller received, in order
    finished,   \* history: the commands in the order their Run returned
    sawCancel,  \* history: the goroutines that received from cancel: worker
                \* w, or 0 for the goroutine draining istdout
    lateStarts, \* history: commands started by a worker after it received
                \* from cancel
    \* ---- the scanner of getScanner ----
    sPc,        \* position of the loop calling Scan
    sInput,     \* the bytes of stdin
    sRS,        \* the bytes of the environment's RS
    sStart,     \* bufio.Scanner.start, as an offset into sInput
    sEnd,       \* bufio.Scanner.end: the bytes read so far
    sEOF,       \* the read returned io.EOF (Scanner.err is set)
    sTokens,    \* the tokens Scan delivered, in order
    \* ---- genCommands ----
    gPc,        \* position of the goroutine of genCommands
    gRecords,   \* the records scanner.Scan() delivers
    gPos,       \* how many of them were delivered
    gSep,       \* resep != nil
    gNlines,    \* args.Nlines
    gDryRun,    \* args.DryRun
    gLines,     \* the local variable lines
    gSent,      \* the command strings sent on ch, in order
    gPrinted,   \* the command strings printed by a dry run, in order
    \* ---- process.oneRun (one attempt, statement by statement) ----
    oPc,        \* position of the goroutine that calls oneRun
    oCallback,  \* callback != nil
    oCbFails,   \* the callback returns a non-nil error
    oOut,       \* how many bytes opipe delivers before it ends
    oEnd,       \* how opipe ends: "EOF", or "err" for a read error
    cbPc,       \* position of the goroutine that runs the callback
    errch,      \* buffer of errch (capacity 1)
    errchClosed,
    oErr,       \* the local variable err of oneRun
    oStarted,   \* cmd.Start() returned nil
    oWaited,    \* cmd.Wait() was called
    oWaitErr,   \* what cmd.Wait() returned
    oTmp,       \* the temp file ioutil.TempFile created, or NoFile
    oPath,      \* history: "" or the branch taken after Peek: "mem", "spill"
    oRes,       \* the Command oneRun returned
    \* ---- process.Run with remote hosts (Options.Remotes) ----
    GoMaxProcs, \* runtime.GOMAXPROCS(0): the workers that call Run
    Remotes,    \* len(opts.Remotes)
    counter,    \* *(r.counter) of each remote
    rLeft,      \* commands no worker has taken yet
    rPc,        \* position of each worker inside Run
    rIdx,       \* the index of the range loop of getHost
    rHost,      \* the local variable host of Run: a remote, or 0 for nil
    rRetries    \* the local variable retries of Run

runVars == <<runPc, optsNil, optRetries, retries, c, attempts, curCmd, files, garbage>>
mainVars == <<mainPc, nCmds, StopOnError, logSet, stdoutCh, stdoutClosed, p,
              ExitCode, fails, sink, logLines, consumed>>
pipeVars == <<Ordered, NumProcs, nIn, cancelClosed, ePc, eI, icClosed, istdout,
              istdoutClosed, wPc, wCmd, dPc, dCh, closerPc, outCh, outClosed,
              panicked, runs, takenBy, chanLog, received, finished, sawCancel,
              lateStarts>>
scanVars == <<sPc, sInput, sRS, sStart, sEnd, sEOF, sTokens>>
genVars == <<gPc, gRecords, gPos, gSep, gNlines, gDryRun, gLines, gSent, gPrinted>>
oneVars == <<oPc, oCallback, oCbFails, oOut, oEnd, cbPc, errch, errchClosed, oErr,
             oStarted, oWaited, oWaitErr, oTmp, oPath, oRes>>
hostVars == <<GoMaxProcs, Remotes, counter, rLeft, rPc, rIdx, rHost, rRetries>>
vars == <<runVars, mainVars, pipeVars, scanVars, genVars, oneVars, hostVars>>
\* What the specifications of Run and of run() leave alone.
outsideMain == <<pipeVars, scanVars, genVars, oneVars, hostVars>>

----
\* Bounds of the model.
MaxRetries == 2
MainRetries == 1
MainCmds == 2
MaxProcs == 2
MaxCmds == 3
LiveCmds == 2

MaxInput == 4
MaxRecs == 4
MaxNlines == 3

\* WaitingMultiplier of process.go.
WaitingMultiplier == 4

\* UnknownExit of process.go.
UnknownExit == 1

\* Exit statuses syscall.WaitStatus.ExitStatus() reports inside an
\* *exec.ExitError: the child's status (never 0 there), or -1 for a child
\* that did not exit normally (killed by a signal).
ExitStatuses == {2, -1}

NoFile == <<>>

\* The values of Command.Err: nil, an *exec.ExitError carrying a WaitStatus,
\* or any other error.
ErrNil == [kind |-> "nil", status |-> 0]
ErrOther == [kind |-> "other", status |-> 0]
ErrExit(s) == [kind |-> "exit", status |-> s]
WaitErrs == {ErrNil, ErrOther} \cup {ErrExit(s) : s \in ExitStatuses}

\* newCommand: the fields of a Command the model follows. rdr is "nil" (no
\* reader), "mem" (a reader over the peeked bytes) or "tmp" (a reader over
\* the temp file); tmp is NoFile for nil.
newCommand(rdr, tmp, cmd, err) ==
    [rdr |-> rdr, tmp |-> tmp, cmd |-> cmd, err |-> err]

NoCommand == newCommand("nil", NoFile, 0, ErrNil)

\* Command.ExitCode.
CommandExitCode(cmd) ==
    IF cmd.err.kind = "nil" THEN 0
    ELSE IF cmd.err.kind = "exit" THEN cmd.err.status
    ELSE UnknownExit

\* oneRun: every Command attempt number att of command cmd can return, one
\* group per return statement (its line).
oneRun(cmd, att) ==
    LET f == <<cmd, att>> IN
    \* 195, 221, 240: StdoutPipe, Start or Peek failed
       {newCommand("nil", NoFile, cmd, ErrOther)}
    \* 237: output of at most BufferSize bytes; err is Wait's or the callback's
    \cup {newCommand("mem", NoFile, cmd, e) : e \in WaitErrs}
    \* 247: ioutil.TempFile failed, tmp is nil
    \cup {newCommand("mem", NoFile, cmd, ErrOther)}
    \* 252: io.CopyBuffer failed, the temp file exists
    \cup {newCommand("mem", f, cmd, ErrOther)}
    \* 270: large output; err is Seek's, Wait's or the callback's
    \cup {newCommand("tmp", f, cmd, e) : e \in WaitErrs}

\* The temp file an attempt left on disk, as a set.
Created(cmd) == IF cmd.tmp = NoFile THEN {} ELSE {cmd.tmp}

----
\* The process is gone: os.Exit, or an unrecovered panic in the drain or in
\* a goroutine of Runner.
Dead == mainPc \in {"exited", "panic"} \/ runPc = "panic"

----
\* process.Run

\* opts.Retries as Run reads it (line 147): retries stays 0 when opts is nil.
RunR == IF optsNil THEN 0 ELSE optRetries

\* Run, lines 134-148: the first attempt.
RunFirst ==
    /\ ~Dead
    /\ runPc = "first"
    /\ \E r \in oneRun(curCmd, 1) :
        /\ c' = r
        /\ files' = files \cup Created(r)
    /\ retries' = RunR
    /\ runPc' = "loop"
    /\ UNCHANGED <<optsNil, optRetries, curCmd, garbage>>
    /\ UNCHANGED mainVars
    /\ UNCHANGED outsideMain

\* Run, line 149: the loop condition.
RetryCondIgnoresExit == retries > 0
RetryCond == retries > 0 /\ CommandExitCode(c) # 0

\* Run, lines 149-152: one more attempt, the (RunR - retries + 2)-th; the
\* previous Command is dropped and only its finalizer can still remove its
\* temp file.
RunRetry ==
    /\ ~Dead
    /\ runPc = "loop"
    /\ RetryCond
    /\ retries' = retries - 1
    /\ \E r \in oneRun(curCmd, RunR - retries + 2) :
        /\ c' = r
        /\ files' = files \cup Created(r)
    /\ garbage' = garbage \cup Created(c)
    /\ UNCHANGED <<runPc, optsNil, optRetries, curCmd>>
    /\ UNCHANGED mainVars
    /\ UNCHANGED outsideMain

\* Run, lines 153-154: return c.
RunReturn ==
    /\ ~Dead
    /\ runPc = "loop"
    /\ ~RetryCond
    /\ runPc' = "ret"
    /\ UNCHANGED <<optsNil, optRetries, retries, c, attempts, curCmd, files, garbage>>
    /\ UNCHANGED mainVars
    /\ UNCHANGED outsideMain

\* The history of a call of Run: the Command each attempt returned.
RecordAttempt == attempts' = Append(attempts, c')

\* runtime.SetFinalizer(c, cleanup) of newCommand: the garbage collector may
\* run cleanup on a Command nothing references any more, at any time or
\* never; os.Exit runs no finalizers.
Finalize ==
    /\ ~Dead
    /\ \E f \in garbage :
        /\ files' = files \ {f}
        /\ garbage' = garbage \ {f}
    /\ UNCHANGED <<runPc, optsNil, optRetries, retries, c, attempts, curCmd>>
    /\ UNCHANGED mainVars
    /\ UNCHANGED outsideMain

----
\* run() of main.go with the default Procs of 1: one worker of Runner, the
\* closer goroutine, and the drain loop. (Verbose only prints to stderr and
\* the periodic Flush changes nothing the model follows.)

\* cancel is closed by the deferred close(cancel) when run() returns.
Cancelled == mainPc \in {"returned", "exited"}

\* make(chan *Command, runtime.GOMAXPROCS(0)) with GOMAXPROCS = Procs = 1.
StdoutCap == 1

maxOfLast(a, b) == b
max(a, b) == IF a > b THEN a ELSE b

\* Runner, line 377: the worker takes the next command and calls Run.
MainWorkerTake ==
    /\ ~Dead
    /\ runPc = "idle"
    /\ curCmd < nCmds
    /\ curCmd' = curCmd + 1
    /\ runPc' = "first"
    /\ UNCHANGED <<optsNil, optRetries, retries, c, attempts, files, garbage>>
    /\ UNCHANGED mainVars
    /\ UNCHANGED outsideMain

\* Runner, line 379: the worker sends the Command Run returned.
MainWorkerPublish ==
    /\ ~Dead
    /\ runPc = "ret"
    /\ IF stdoutClosed
       THEN \* send on closed channel
            /\ runPc' = "panic"
            /\ UNCHANGED <<stdoutCh, c>>
       ELSE /\ Len(stdoutCh) < StdoutCap
            /\ stdoutCh' = Append(stdoutCh, c)
            /\ runPc' = "idle"
            /\ c' = NoCommand
    /\ UNCHANGED <<optsNil, optRetries, retries, attempts, curCmd, files, garbage>>
    /\ UNCHANGED <<mainPc, nCmds, StopOnError, logSet, stdoutClosed, p,
                   ExitCode, fails, sink, logLines, consumed>>
    /\ UNCHANGED outsideMain

\* Runner, lines 380-385: the worker receives from the closed cancel, closes
\* stdout (a panic when it is closed already) and, the break leaving only
\* the select, goes on with the range loop. The Command Run returned is
\* dropped.
MainWorkerCancel ==
    /\ ~Dead
    /\ runPc = "ret"
    /\ Cancelled
    /\ runPc' = IF stdoutClosed THEN "panic" ELSE "idle"
    /\ stdoutClosed' = TRUE
    /\ garbage' = garbage \cup Created(c)
    /\ c' = NoCommand
    /\ UNCHANGED <<optsNil, optRetries, retries, attempts, curCmd, files>>
    /\ UNCHANGED <<mainPc, nCmds, StopOnError, logSet, stdoutCh, p,
                   ExitCode, fails, sink, logLines, consumed>>
    /\ UNCHANGED outsideMain

\* Runner, lines 375-377: the command channel is closed, the worker returns
\* (wg.Done).
MainWorkerExit ==
    /\ ~Dead
    /\ runPc = "idle"
    /\ curCmd = nCmds
    /\ runPc' = "done"
    /\ UNCHANGED <<optsNil, optRetries, retries, c, attempts, curCmd, files, garbage>>
    /\ UNCHANGED mainVars
    /\ UNCHANGED outsideMain

\* Runner, lines 392-395: wg.Wait returned; close(stdout).
MainCloser ==
    /\ ~Dead
    /\ runPc = "done"
    /\ runPc' = IF stdoutClosed THEN "panic" ELSE "closed"
    /\ stdoutClosed' = TRUE
    /\ UNCHANGED <<optsNil, optRetries, retries, c, attempts, curCmd, files, garbage>>
    /\ UNCHANGED <<mainPc, nCmds, StopOnError, logSet, stdoutCh, p,
                   ExitCode, fails, sink, logLines, consumed>>
    /\ UNCHANGED outsideMain

\* run(), line 215: the range over Runner's channel takes the next result,
\* or ends when the channel is closed and empty.
DrainRecv ==
    /\ ~Dead
    /\ mainPc = "range"
    /\ IF stdoutCh # <<>>
       THEN /\ p' = Head(stdoutCh)
            /\ stdoutCh' = Tail(stdoutCh)
            /\ consumed' = Append(consumed, Head(stdoutCh))
            /\ mainPc' = "handle"
       ELSE /\ stdoutClosed
            /\ mainPc' = "after"
            /\ UNCHANGED <<p, stdoutCh, consumed>>
    /\ UNCHANGED <<nCmds, StopOnError, logSet, stdoutClosed, ExitCode, fails,
                   sink, logLines>>
    /\ UNCHANGED runVars
    /\ UNCHANGED outsideMain

\* run(), lines 216-224: a result with a non-zero exit code.
DrainHandle ==
    /\ ~Dead
    /\ mainPc = "handle"
    /\ LET ex == CommandExitCode(p) IN
       IF ex # 0
       THEN /\ ExitCode' = max(ExitCode, ex)
            /\ fails' = fails + 1
            /\ IF StopOnError
               THEN \* break: p is dropped without Cleanup
                    /\ mainPc' = "after"
                    /\ garbage' = garbage \cup Created(p)
                    /\ p' = NoCommand
               ELSE /\ mainPc' = "copy"
                    /\ UNCHANGED <<garbage, p>>
       ELSE /\ mainPc' = "copy"
            /\ UNCHANGED <<ExitCode, fails, garbage, p>>
    /\ UNCHANGED <<nCmds, StopOnError, logSet, stdoutCh, stdoutClosed, sink,
                   logLines, consumed>>
    /\ UNCHANGED <<runPc, optsNil, optRetries, retries, c, attempts, curCmd, files>>
    /\ UNCHANGED outsideMain

\* run(), lines 228-229: io.Copy(stdout, p). p embeds its *bufio.Reader, so
\* io.Copy calls p.WriteTo: a nil pointer dereference when the reader is nil.
DrainCopy ==
    /\ ~Dead
    /\ mainPc = "copy"
    /\ IF p.rdr = "nil"
       THEN /\ mainPc' = "panic"
            /\ UNCHANGED sink
       ELSE /\ sink' = Append(sink, p.cmd)
            /\ mainPc' = "cleanup"
    /\ UNCHANGED <<nCmds, StopOnError, logSet, stdoutCh, stdoutClosed, p,
                   ExitCode, fails, logLines, consumed>>
    /\ UNCHANGED runVars
    /\ UNCHANGED outsideMain

\* Command.Cleanup and cleanup: close and remove the temp file, if any.
Cleanup(cmd, fs) == IF cmd.tmp # NoFile THEN fs \ {cmd.tmp} ELSE fs

\* run(), lines 231-245: p.Cleanup(), the command log's line, and the end of
\* the iteration.
DrainCleanup ==
    /\ ~Dead
    /\ mainPc = "cleanup"
    /\ files' = Cleanup(p, files)
    /\ logLines' = IF logSet
                   THEN Append(logLines, [cmd |-> p.cmd, ok |-> CommandExitCode(p) = 0])
                   ELSE logLines
    /\ p' = NoCommand
    /\ mainPc' = "range"
    /\ UNCHANGED <<nCmds, StopOnError, logSet, stdoutCh, stdoutClosed,
                   ExitCode, fails, sink, consumed>>
    /\ UNCHANGED <<runPc, optsNil, optRetries, retries, c, attempts, curCmd, garbage>>
    /\ UNCHANGED outsideMain

\* run(), lines 246-253: the trailer of the command log; run() returns and
\* its deferred close(cancel) runs.
DrainTrailer ==
    /\ ~Dead
    /\ mainPc = "after"
    /\ logLines' = IF ExitCode = 0 /\ logSet
                   THEN Append(logLines, [trailer |-> "SUCCESS", n |-> 0])
                   ELSE IF logSet
                        THEN Append(logLines, [trailer |-> "FAILED", n |-> fails])
                        ELSE logLines
    /\ mainPc' = "returned"
    /\ UNCHANGED <<nCmds, StopOnError, logSet, stdoutCh, stdoutClosed, p,
                   ExitCode, fails, sink, consumed>>
    /\ UNCHANGED runVars
    /\ UNCHANGED outsideMain

\* main(), line 80: os.Exit(ExitCode).
MainExit ==
    /\ ~Dead
    /\ mainPc = "returned"
    /\ mainPc' = "exited"
    /\ UNCHANGED <<nCmds, StopOnError, logSet, stdoutCh, stdoutClosed, p,
                   ExitCode, fails, sink, logLines, consumed>>
    /\ UNCHANGED runVars
    /\ UNCHANGED outsideMain

----
\* process.Runner and oRunner. Commands are named by their emission index
\* 1, 2, ...; the per-command channel of istring.ch is named by its command,
\* and so is the Command that Run returns for it.

\* What the specification of the runner leaves alone.
outsidePipe == <<runVars, mainVars, scanVars, genVars, oneVars, hostVars>>

\* No run-time panic has ended the process.
Alive == panicked = ""

WorkersOffByOne == 1..(NumProcs - 1)
Workers == 1..NumProcs

\* A send on a buffered channel appends to its buffer.
SendLossy(buf, v) == <<v>>
Send(buf, v) == Append(buf, v)

\* A receive from a buffered channel takes the oldest element: its position.
RecvNewest(buf) == Len(buf)
Recv(buf) == 1

Without(buf, k) == [i \in 1..(Len(buf) - 1) |-> IF i < k THEN buf[i] ELSE buf[i + 1]]

\* enumerate, line 289: the next command of the caller's channel, or its close.
EnumRecv ==
    /\ Alive
    /\ ePc = "recv"
    /\ ePc' = IF eI < nIn THEN (IF Ordered THEN "push" ELSE "send") ELSE "close"
    /\ UNCHANGED <<Ordered, NumProcs, nIn, cancelClosed, eI, icClosed, istdout,
                   istdoutClosed, wPc, wCmd, dPc, dCh, closerPc, outCh, outClosed,
                   panicked, runs, takenBy, chanLog, received, finished, sawCancel,
                   lateStarts>>
    /\ UNCHANGED outsidePipe

\* enumerate, lines 290-293: the command's own channel is queued on istdout,
\* whose capacity is WaitingMultiplier * GOMAXPROCS.
EnumPush ==
    /\ Alive
    /\ ePc = "push"
    /\ Len(istdout) < WaitingMultiplier * NumProcs
    /\ istdout' = Send(istdout, eI + 1)
    /\ ePc' = "send"
    /\ UNCHANGED <<Ordered, NumProcs, nIn, cancelClosed, eI, icClosed,
                   istdoutClosed, wPc, wCmd, dPc, dCh, closerPc, outCh, outClosed,
                   panicked, runs, takenBy, chanLog, received, finished, sawCancel,
                   lateStarts>>
    /\ UNCHANGED outsidePipe

\* Runner, line 377 (oRunner, line 417): the worker is at the receive of its
\* range loop.
WorkerFreeAlways(w) == TRUE
WorkerFree(w) == wPc[w] = "range"

\* enumerate, lines 294-295, with Runner, line 377 (oRunner, line 417): the
\* unbuffered send of the istring meets a worker's receive; the worker calls
\* Run at once (Runner, line 379, evaluates it on entering the select;
\* oRun, line 160).
WorkerRecv(w) ==
    /\ Alive
    /\ ePc = "send"
    /\ WorkerFree(w)
    /\ eI' = eI + 1
    /\ ePc' = "recv"
    /\ wPc' = [wPc EXCEPT ![w] = "run"]
    /\ wCmd' = [wCmd EXCEPT ![w] = eI + 1]
    /\ runs' = [runs EXCEPT ![eI + 1] = @ + 1]
    /\ takenBy' = [takenBy EXCEPT ![eI + 1] = @ \cup {w}]
    /\ lateStarts' = IF w \in sawCancel \/ (Ordered /\ 0 \in sawCancel)
                     THEN lateStarts \cup {eI + 1}
                     ELSE lateStarts
    /\ UNCHANGED <<Ordered, NumProcs, nIn, cancelClosed, icClosed, istdout,
                   istdoutClosed, dPc, dCh, closerPc, outCh, outClosed,
                   panicked, chanLog, received, finished, sawCancel>>
    /\ UNCHANGED outsidePipe

\* enumerate, lines 297-300: close(ch), then close(istdout) when there is one.
EnumCloseCommands ==
    /\ Alive
    /\ ePc = "close"
    /\ icClosed' = TRUE
    /\ ePc' = IF Ordered THEN "closeq" ELSE "done"
    /\ UNCHANGED <<Ordered, NumProcs, nIn, cancelClosed, eI, istdout,
                   istdoutClosed, wPc, wCmd, dPc, dCh, closerPc, outCh, outClosed,
                   panicked, runs, takenBy, chanLog, received, finished, sawCancel,
                   lateStarts>>
    /\ UNCHANGED outsidePipe

EnumCloseQueue ==
    /\ Alive
    /\ ePc = "closeq"
    /\ istdoutClosed' = TRUE
    /\ ePc' = "done"
    /\ UNCHANGED <<Ordered, NumProcs, nIn, cancelClosed, eI, icClosed, istdout,
                   wPc, wCmd, dPc, dCh, closerPc, outCh, outClosed,
                   panicked, runs, takenBy, chanLog, received, finished, sawCancel,
                   lateStarts>>
    /\ UNCHANGED outsidePipe

\* Run returns in the worker: it is at its publish point, the select of
\* Runner (line 378) or the send of oRun (line 161).
RunDone(w) ==
    /\ Alive
    /\ wPc[w] = "run"
    /\ wPc' = [wPc EXCEPT ![w] = IF Ordered THEN "osend" ELSE "select"]
    /\ finished' = Append(finished, wCmd[w])
    /\ UNCHANGED <<Ordered, NumProcs, nIn, cancelClosed, ePc, eI, icClosed, istdout,
                   istdoutClosed, wCmd, dPc, dCh, closerPc, outCh, outClosed,
                   panicked, runs, takenBy, chanLog, received, sawCancel,
                   lateStarts>>
    /\ UNCHANGED outsidePipe

\* Runner, line 379: the send on stdout (capacity GOMAXPROCS) is chosen; on
\* a closed channel it panics.
WorkerSend(w) ==
    /\ Alive
    /\ ~Ordered
    /\ wPc[w] = "select"
    /\ IF outClosed
       THEN /\ panicked' = "send on closed channel"
            /\ UNCHANGED <<outCh, chanLog, wPc>>
       ELSE /\ Len(outCh) < NumProcs
            /\ outCh' = Send(outCh, wCmd[w])
            /\ chanLog' = Append(chanLog, wCmd[w])
            /\ wPc' = [wPc EXCEPT ![w] = "range"]
            /\ UNCHANGED panicked
    /\ UNCHANGED <<Ordered, NumProcs, nIn, cancelClosed, ePc, eI, icClosed, istdout,
                   istdoutClosed, wCmd, dPc, dCh, closerPc, outClosed,
                   runs, takenBy, received, finished, sawCancel, lateStarts>>
    /\ UNCHANGED outsidePipe

\* Runner, lines 380-385: the receive from the closed cancel is chosen:
\* close(stdout), which panics on a closed channel; the break leaves the
\* select, and the worker is back at its range loop.
WorkerCancel(w) ==
    /\ Alive
    /\ ~Ordered
    /\ wPc[w] = "select"
    /\ cancelClosed
    /\ sawCancel' = sawCancel \cup {w}
    /\ IF outClosed
       THEN /\ panicked' = "close of closed channel"
            /\ UNCHANGED <<outClosed, wPc>>
       ELSE /\ outClosed' = TRUE
            /\ wPc' = [wPc EXCEPT ![w] = "range"]
            /\ UNCHANGED panicked
    /\ UNCHANGED <<Ordered, NumProcs, nIn, cancelClosed, ePc, eI, icClosed, istdout,
                   istdoutClosed, wCmd, dPc, dCh, closerPc, outCh,
                   runs, takenBy, chanLog, received, finished, lateStarts>>
    /\ UNCHANGED outsidePipe

\* Runner, lines 375-377 (oRunner, line 417): the range loop ends when the
\* command channel is closed; the worker returns.
WorkerExit(w) ==
    /\ Alive
    /\ wPc[w] = "range"
    /\ icClosed
    /\ wPc' = [wPc EXCEPT ![w] = "done"]
    /\ UNCHANGED <<Ordered, NumProcs, nIn, cancelClosed, ePc, eI, icClosed, istdout,
                   istdoutClosed, wCmd, dPc, dCh, closerPc, outCh, outClosed,
                   panicked, runs, takenBy, chanLog, received, finished, sawCancel,
                   lateStarts>>
    /\ UNCHANGED outsidePipe

\* Runner, lines 392-395: every worker called wg.Done; close(stdout).
CloserClose ==
    /\ Alive
    /\ closerPc = "wait"
    /\ \A w \in Workers : wPc[w] = "done"
    /\ closerPc' = "done"
    /\ IF outClosed
       THEN /\ panicked' = "close of closed channel"
            /\ UNCHANGED outClosed
       ELSE /\ outClosed' = TRUE
            /\ UNCHANGED panicked
    /\ UNCHANGED <<Ordered, NumProcs, nIn, cancelClosed, ePc, eI, icClosed, istdout,
                   istdoutClosed, wPc, wCmd, dPc, dCh, outCh,
                   runs, takenBy, chanLog, received, finished, sawCancel,
                   lateStarts>>
    /\ UNCHANGED outsidePipe

\* oRunner, line 424: the drain goroutine takes the next per-command channel
\* from istdout; when istdout is closed and empty it closes stdout (line 432).
ODrainNext ==
    /\ Alive
    /\ dPc = "range"
    /\ IF istdout # <<>>
       THEN /\ dCh' = istdout[Recv(istdout)]
            /\ istdout' = Without(istdout, Recv(istdout))
            /\ dPc' = "recv"
            /\ UNCHANGED outClosed
       ELSE /\ istdoutClosed
            /\ outClosed' = TRUE
            /\ dPc' = "done"
            /\ UNCHANGED <<dCh, istdout>>
    /\ UNCHANGED <<Ordered, NumProcs, nIn, cancelClosed, ePc, eI, icClosed,
                   istdoutClosed, wPc, wCmd, closerPc, outCh,
                   panicked, runs, takenBy, chanLog, received, finished, sawCancel,
                   lateStarts>>
    /\ UNCHANGED outsidePipe

\* oRun, lines 161-162, with oRunner, line 427: the worker's send on the
\* command's unbuffered channel meets the drain goroutine's receive <-ch,
\* which the select evaluates first; the worker closes the channel and is
\* back at its range loop.
OSend(w) ==
    /\ Alive
    /\ wPc[w] = "osend"
    /\ dPc = "recv"
    /\ dCh = wCmd[w]
    /\ dPc' = "select"
    /\ wPc' = [wPc EXCEPT ![w] = "range"]
    /\ UNCHANGED <<Ordered, NumProcs, nIn, cancelClosed, ePc, eI, icClosed, istdout,
                   istdoutClosed, wCmd, dCh, closerPc, outCh, outClosed,
                   panicked, runs, takenBy, chanLog, received, finished, sawCancel,
                   lateStarts>>
    /\ UNCHANGED outsidePipe

\* oRunner, line 427: the send of the received Command on stdout is chosen.
ODrainSend ==
    /\ Alive
    /\ dPc = "select"
    /\ Len(outCh) < NumProcs
    /\ outCh' = Send(outCh, dCh)
    /\ chanLog' = Append(chanLog, dCh)
    /\ dPc' = "range"
    /\ UNCHANGED <<Ordered, NumProcs, nIn, cancelClosed, ePc, eI, icClosed, istdout,
                   istdoutClosed, wPc, wCmd, dCh, closerPc, outClosed,
                   panicked, runs, takenBy, received, finished, sawCancel,
                   lateStarts>>
    /\ UNCHANGED outsidePipe

\* oRunner, lines 428-429: the receive from the closed cancel is chosen; the
\* Command is dropped and the break leaves the select only.
ODrainCancel ==
    /\ Alive
    /\ dPc = "select"
    /\ cancelClosed
    /\ sawCancel' = sawCancel \cup {0}
    /\ dPc' = "range"
    /\ UNCHANGED <<Ordered, NumProcs, nIn, cancelClosed, ePc, eI, icClosed, istdout,
                   istdoutClosed, wPc, wCmd, dCh, closerPc, outCh, outClosed,
                   panicked, runs, takenBy, chanLog, received, finished,
                   lateStarts>>
    /\ UNCHANGED outsidePipe

\* The caller of Runner receives a Command from stdout.
Receive ==
    /\ Alive
    /\ outCh # <<>>
    /\ received' = Append(received, outCh[Recv(outCh)])
    /\ outCh' = Without(outCh, Recv(outCh))
    /\ UNCHANGED <<Ordered, NumProcs, nIn, cancelClosed, ePc, eI, icClosed, istdout,
                   istdoutClosed, wPc, wCmd, dPc, dCh, closerPc, outClosed,
                   panicked, runs, takenBy, chanLog, finished, sawCancel,
                   lateStarts>>
    /\ UNCHANGED outsidePipe

\* The caller of Runner closes cancel.
Cancel ==
    /\ Alive
    /\ ~cancelClosed
    /\ cancelClosed' = TRUE
    /\ UNCHANGED <<Ordered, NumProcs, nIn, ePc, eI, icClosed, istdout,
                   istdoutClosed, wPc, wCmd, dPc, dCh, closerPc, outCh, outClosed,
                   panicked, runs, takenBy, chanLog, received, finished, sawCancel,
                   lateStarts>>
    /\ UNCHANGED outsidePipe

----
\* The scanner of getScanner with RS set: the split function, driven by the
\* loop of bufio.Scanner.Scan. Offsets count bytes from 0 as in Go; the
\* sequences of the model are indexed from 1.

outsideScan == <<runVars, mainVars, pipeVars, genVars, oneVars, hostVars>>

\* The bytes of the inputs and the values of RS the model draws from.
Bytes == {"a", "b"}
Separators == {<<"a">>, <<"a", "b">>, <<"a", "a">>}

\* All byte strings of length at most n.
Strings(n) == UNION {[1..k -> Bytes] : k \in 0..n}

\* data[from:to]
Slice(data, from, to) == [i \in 1..(to - from) |-> data[from + i]]

\* bytes.Index(data, sep): the offset of the first occurrence of sep, or -1.
Index(data, sep) ==
    LET hits == {i \in 0..(Len(data) - Len(sep)) :
                    Slice(data, i, i + Len(sep)) = sep}
    IN IF hits = {} THEN -1 ELSE CHOOSE i \in hits : \A j \in hits : i <= j

\* The split function of getScanner, lines 114-126: advance, token, and
\* whether the token is non-nil.
SplitAdvance(i, brs) == i + 1

split(data, atEOF, brs) ==
    LET i == Index(data, brs) IN
    IF atEOF /\ Len(data) = 0
    THEN [advance |-> 0, token |-> <<>>, some |-> FALSE]
    ELSE IF i >= 0
    THEN [advance |-> SplitAdvance(i, brs),
          token |-> Slice(data, 0, i + Len(brs)), some |-> TRUE]
    ELSE IF atEOF
    THEN [advance |-> Len(data), token |-> data, some |-> TRUE]
    ELSE [advance |-> 0, token |-> <<>>, some |-> FALSE]

\* The bytes bufio.Scanner holds and has not passed: buf[start:end].
ScanData == Slice(sInput, sStart, sEnd)

\* Scan: split finds a token in the buffered bytes; Scan returns true.
ScanToken ==
    /\ sPc = "scan"
    /\ sEnd > sStart \/ sEOF
    /\ LET r == split(ScanData, sEOF, sRS) IN
        /\ r.some
        /\ sStart' = sStart + r.advance
        /\ sTokens' = Append(sTokens, r.token)
    /\ UNCHANGED <<sPc, sInput, sRS, sEnd, sEOF>>
    /\ UNCHANGED outsideScan

\* Scan: split asked for more bytes; the read delivers some, or io.EOF.
ScanRead ==
    /\ sPc = "scan"
    /\ ~sEOF
    /\ ~(sEnd > sStart /\ split(ScanData, FALSE, sRS).some)
    /\ IF sEnd < Len(sInput)
       THEN /\ \E n \in (sEnd + 1)..Len(sInput) : sEnd' = n
            /\ UNCHANGED sEOF
       ELSE /\ sEOF' = TRUE
            /\ UNCHANGED sEnd
    /\ UNCHANGED <<sPc, sInput, sRS, sStart, sTokens>>
    /\ UNCHANGED outsideScan

\* Scan: at the end of the input split returns no token; Scan returns false.
ScanStop ==
    /\ sPc = "scan"
    /\ sEOF
    /\ ~split(ScanData, TRUE, sRS).some
    /\ sPc' = "done"
    /\ UNCHANGED <<sInput, sRS, sStart, sEnd, sEOF, sTokens>>
    /\ UNCHANGED outsideScan

----
\* genCommands. A command string is modelled by the template binding it is
\* expanded from: the tokens bound to "0", "1", ... and the value of Line.

outsideGen == <<runVars, mainVars, pipeVars, scanVars, oneVars, hostVars>>

\* The records the model draws scanner.Text() from.
Records == {<<"a">>, <<"b", " ", "a">>, <<>>}

\* os.Getenv("FS"), defaulting to a single space.
FS == <<" ">>

\* strings.Join(elems, sep)
RECURSIVE Join(_, _)
Join(elems, sep) ==
    IF elems = <<>> THEN <<>>
    ELSE IF Len(elems) = 1 THEN elems[1]
    ELSE elems[1] \o sep \o Join(Tail(elems), sep)

\* resep.Split(line, -1) for the default regular expression \s+: the pieces
\* between the runs of white space, empty pieces at the ends included.
RECURSIVE SplitWS(_, _, _)
SplitWS(rest, cur, inWS) ==
    IF rest = <<>> THEN <<cur>>
    ELSE IF Head(rest) = " "
    THEN IF inWS THEN SplitWS(Tail(rest), cur, TRUE)
         ELSE <<cur>> \o SplitWS(Tail(rest), <<>>, TRUE)
    ELSE SplitWS(Tail(rest), Append(cur, Head(rest)), FALSE)

Split(line) == SplitWS(line, <<>>, FALSE)

\* fillTmplMap
fillTmplMap(toks, line) == [toks |-> toks, Line |-> line]

\* genCommands, line 171: the group is complete.
GroupFullOffByOne(lines, n) == Len(lines) > n
GroupFull(lines, n) == Len(lines) >= n

\* handleCommand: a dry run prints the command, otherwise it is sent on ch.
handleCommand(cmd) ==
    IF gDryRun
    THEN gPrinted' = Append(gPrinted, cmd) /\ UNCHANGED gSent
    ELSE gSent' = Append(gSent, cmd) /\ UNCHANGED gPrinted

\* genCommands, lines 150-178: one iteration of the loop over scanner.Scan()
\* with scanner.Err() == nil.
GenRecord ==
    /\ gPc = "scan"
    /\ gPos < Len(gRecords)
    /\ gPos' = gPos + 1
    /\ LET line == gRecords[gPos + 1] IN
       IF gSep
       THEN /\ handleCommand(fillTmplMap(Split(line), line))
            /\ UNCHANGED gLines
       ELSE LET lines == Append(gLines, line) IN
            IF GroupFull(lines, gNlines)
            THEN /\ handleCommand(fillTmplMap(lines, Join(lines, FS)))
                 /\ gLines' = <<>>
            ELSE /\ gLines' = lines
                 /\ UNCHANGED <<gSent, gPrinted>>
    /\ UNCHANGED <<gPc, gRecords, gSep, gNlines, gDryRun>>
    /\ UNCHANGED outsideGen

\* genCommands, lines 165-169: Scan delivered a record while scanner.Err()
\* is a read error; log.Fatal ends the process.
GenFatal ==
    /\ gPc = "scan"
    /\ gPos < Len(gRecords)
    /\ gPc' = "fatal"
    /\ UNCHANGED <<gRecords, gPos, gSep, gNlines, gDryRun, gLines, gSent, gPrinted>>
    /\ UNCHANGED outsideGen

\* genCommands, lines 179-185: Scan returned false; a partial group is
\* emitted and ch is closed.
GenClose ==
    /\ gPc = "scan"
    /\ gPos = Len(gRecords)
    /\ IF Len(gLines) > 0
       THEN handleCommand(fillTmplMap(gLines, Join(gLines, FS)))
       ELSE UNCHANGED <<gSent, gPrinted>>
    /\ gPc' = "done"
    /\ UNCHANGED <<gRecords, gPos, gSep, gNlines, gDryRun, gLines>>
    /\ UNCHANGED outsideGen

----
\* process.oneRun, statement by statement, for command 1 run locally
\* (cfg == nil). opipe is the stream oneRun reads: the child's stdout, or
\* what the callback writes to its pipe; a callback closes the writer it is
\* given, as its contract says.

outsideOne == <<runVars, mainVars, pipeVars, scanVars, genVars, hostVars>>

\* The longest output the model draws.
MaxOut == 3

\* BufferSize of process.go, a package variable (1 MiB by default); the
\* model sets it to 2 bytes.
BufferSize == 2

\* The error a failing callback returns.
ErrCallback == [kind |-> "callback", status |-> 0]

\* oneRun returns cmd.
OneReturn(cmd) == oRes' = cmd /\ oPc' = "ret"

\* oneRun, lines 193-214: cmd.StdoutPipe(); with a callback, errch is made
\* and the goroutine that runs the callback is started.
OnePipe ==
    /\ oPc = "pipe"
    /\ \/ /\ OneReturn(newCommand("nil", NoFile, 1, ErrOther))
          /\ UNCHANGED cbPc
       \/ /\ oPc' = "start"
          /\ cbPc' = IF oCallback THEN "running" ELSE cbPc
          /\ UNCHANGED oRes
    /\ UNCHANGED <<oCallback, oCbFails, oOut, oEnd, errch, errchClosed, oErr,
                   oStarted, oWaited, oWaitErr, oTmp, oPath>>
    /\ UNCHANGED outsideOne

\* oneRun, lines 202-209: the callback returns; its error, if any, is sent
\* on errch, and errch is closed.
OneCallbackDone ==
    /\ cbPc = "running"
    /\ errch' = IF oCbFails THEN <<ErrCallback>> ELSE <<>>
    /\ errchClosed' = TRUE
    /\ cbPc' = "done"
    /\ UNCHANGED <<oPc, oCallback, oCbFails, oOut, oEnd, oErr, oStarted, oWaited,
                   oWaitErr, oTmp, oPath, oRes>>
    /\ UNCHANGED outsideOne

\* oneRun, lines 219-222: cmd.Start().
OneStart ==
    /\ oPc = "start"
    /\ \/ /\ OneReturn(newCommand("nil", NoFile, 1, ErrOther))
          /\ UNCHANGED oStarted
       \/ /\ oStarted' = TRUE
          /\ oPc' = "peek"
          /\ UNCHANGED oRes
    /\ UNCHANGED <<oCallback, oCbFails, oOut, oEnd, cbPc, errch, errchClosed, oErr,
                   oWaited, oWaitErr, oTmp, oPath>>
    /\ UNCHANGED outsideOne

\* bufio.Reader.Peek(BufferSize) on a reader whose buffer holds BufferSize
\* bytes (line 227): it reads until the buffer holds BufferSize bytes and
\* then returns them with a nil error, without looking for the end of the
\* stream; with fewer bytes it returns the error that ended the reads.
\* ErrBufferFull is for a request larger than the buffer: not this one.
PeekErr(out, end) == IF out >= BufferSize THEN "nil" ELSE end

\* oneRun, lines 224-241: the Peek and the branch on its error.
OnePeek ==
    /\ oPc = "peek"
    /\ LET e == PeekErr(oOut, oEnd) IN
       IF e \in {"ErrBufferFull", "EOF"}
       THEN /\ oPath' = "mem"
            /\ oPc' = "wait"
            /\ UNCHANGED oRes
       ELSE IF e # "nil"
       THEN /\ OneReturn(newCommand("nil", NoFile, 1, ErrOther))
            /\ UNCHANGED oPath
       ELSE /\ oPath' = "spill"
            /\ oPc' = "tmpfile"
            /\ UNCHANGED oRes
    /\ UNCHANGED <<oCallback, oCbFails, oOut, oEnd, cbPc, errch, errchClosed, oErr,
                   oStarted, oWaited, oWaitErr, oTmp>>
    /\ UNCHANGED outsideOne

\* oneRun, line 231: err = cmd.Wait().
OneWaitSmall ==
    /\ oPc = "wait"
    /\ \E e \in WaitErrs :
        /\ oWaitErr' = e
        /\ oErr' = e
    /\ oWaited' = TRUE
    /\ oPc' = "result"
    /\ UNCHANGED <<oCallback, oCbFails, oOut, oEnd, cbPc, errch, errchClosed,
                   oStarted, oTmp, oPath, oRes>>
    /\ UNCHANGED outsideOne

\* oneRun, lines 232 and 265: the callback's error is looked at.
TakesCallbackErrAlways(err) == oCallback
TakesCallbackErr(err) == err = ErrNil /\ oCallback

\* oneRun, lines 233-235 and 266-268: e, ok := <-errch blocks until the
\* callback's goroutine has sent or closed; err = e when a value arrived.
RecvErrch ==
    IF TakesCallbackErr(oErr)
    THEN /\ errch # <<>> \/ errchClosed
         /\ oErr' = IF errch # <<>> THEN errch[1] ELSE oErr
         /\ errch' = <<>>
    ELSE UNCHANGED <<oErr, errch>>

\* oneRun, lines 232-237: the result served from memory.
OneReturnSmall ==
    /\ oPc = "result"
    /\ RecvErrch
    /\ OneReturn(newCommand("mem", NoFile, 1, oErr'))
    /\ UNCHANGED <<oCallback, oCbFails, oOut, oEnd, cbPc, errchClosed,
                   oStarted, oWaited, oWaitErr, oTmp, oPath>>
    /\ UNCHANGED outsideOne

\* oneRun, lines 244-248: ioutil.TempFile; tmp is nil when it fails.
OneTempFile ==
    /\ oPc = "tmpfile"
    /\ \/ /\ OneReturn(newCommand("mem", NoFile, 1, ErrOther))
          /\ UNCHANGED oTmp
       \/ /\ oTmp' = <<1, 1>>
          /\ oPc' = "copy"
          /\ UNCHANGED oRes
    /\ UNCHANGED <<oCallback, oCbFails, oOut, oEnd, cbPc, errch, errchClosed, oErr,
                   oStarted, oWaited, oWaitErr, oPath>>
    /\ UNCHANGED outsideOne

\* oneRun, lines 249-253: io.CopyBuffer fails on a write error or on the
\* read error that ends opipe.
OneCopy ==
    /\ oPc = "copy"
    /\ \/ /\ OneReturn(newCommand("mem", oTmp, 1, ErrOther))
       \/ /\ oEnd = "EOF"
          /\ oPc' = "seek"
          /\ UNCHANGED oRes
    /\ UNCHANGED <<oCallback, oCbFails, oOut, oEnd, cbPc, errch, errchClosed, oErr,
                   oStarted, oWaited, oWaitErr, oTmp, oPath>>
    /\ UNCHANGED outsideOne

\* oneRun, lines 254-261: the pipe is closed, the file flushed and rewound;
\* cmd.Wait() is called when Seek succeeded.
OneSeekWait ==
    /\ oPc = "seek"
    /\ \/ /\ oErr' = ErrOther
          /\ UNCHANGED <<oWaited, oWaitErr>>
       \/ /\ \E e \in WaitErrs :
               /\ oWaitErr' = e
               /\ oErr' = e
          /\ oWaited' = TRUE
    /\ oPc' = "resultL"
    /\ UNCHANGED <<oCallback, oCbFails, oOut, oEnd, cbPc, errch, errchClosed,
                   oStarted, oTmp, oPath, oRes>>
    /\ UNCHANGED outsideOne

\* oneRun, lines 265-270: the result served from the temp file.
OneReturnLarge ==
    /\ oPc = "resultL"
    /\ RecvErrch
    /\ OneReturn(newCommand("tmp", oTmp, 1, oErr'))
    /\ UNCHANGED <<oCallback, oCbFails, oOut, oEnd, cbPc, errchClosed,
                   oStarted, oWaited, oWaitErr, oTmp, oPath>>
    /\ UNCHANGED outsideOne

----
\* process.Run with remote hosts: GOMAXPROCS workers of Runner call Run with
\* the same Options, whose Remotes share one counter per remote.

outsideHost == <<runVars, mainVars, pipeVars, scanVars, genVars, oneVars>>

\* The most remotes the model draws, and opts.Retries in this specification.
MaxRemotes == 2
HostRetries == 1

HostWorkers == 1..GoMaxProcs

\* Options.perHost, lines 321-324.
perHost == GoMaxProcs \div (Remotes + 1)

\* Runner, lines 377-379: a worker takes a command and calls Run, which
\* calls opts.getHost() (line 141).
HostTake(w) ==
    /\ rPc[w] = "idle"
    /\ rLeft > 0
    /\ rLeft' = rLeft - 1
    /\ rPc' = [rPc EXCEPT ![w] = "scan"]
    /\ rIdx' = [rIdx EXCEPT ![w] = 1]
    /\ UNCHANGED <<GoMaxProcs, Remotes, counter, rHost, rRetries>>
    /\ UNCHANGED outsideHost

\* getHost, lines 329-338: one step of the loop over the remotes: the plain
\* read of the remote's counter and its comparison with perHost; nil when
\* there is no remote (left).
HostScan(w) ==
    /\ rPc[w] = "scan"
    /\ IF rIdx[w] > Remotes
       THEN /\ rHost' = [rHost EXCEPT ![w] = 0]
            /\ rPc' = [rPc EXCEPT ![w] = "chosen"]
            /\ UNCHANGED rIdx
       ELSE IF counter[rIdx[w]] < perHost
       THEN /\ rHost' = [rHost EXCEPT ![w] = rIdx[w]]
            /\ rPc' = [rPc EXCEPT ![w] = "chosen"]
            /\ UNCHANGED rIdx
       ELSE /\ rIdx' = [rIdx EXCEPT ![w] = @ + 1]
            /\ UNCHANGED <<rHost, rPc>>
    /\ UNCHANGED <<GoMaxProcs, Remotes, counter, rLeft, rRetries>>
    /\ UNCHANGED outsideHost

\* Run, lines 142-145: host.increment() when a remote was chosen.
HostIncrement(w) ==
    /\ rPc[w] = "chosen"
    /\ counter' = IF rHost[w] # 0
                  THEN [counter EXCEPT ![rHost[w]] = @ + 1]
                  ELSE counter
    /\ rPc' = [rPc EXCEPT ![w] = "run"]
    /\ UNCHANGED <<GoMaxProcs, Remotes, rLeft, rIdx, rHost, rRetries>>
    /\ UNCHANGED outsideHost

\* Run, lines 146-147: the first attempt on the chosen host.
HostFirst(w) ==
    /\ rPc[w] = "run"
    /\ rRetries' = [rRetries EXCEPT ![w] = HostRetries]
    /\ rPc' = [rPc EXCEPT ![w] = "loop"]
    /\ UNCHANGED <<GoMaxProcs, Remotes, counter, rLeft, rIdx, rHost>>
    /\ UNCHANGED outsideHost

\* Run, lines 149-152: the last attempt had a non-zero exit code and
\* retries remain: one more attempt on the same host.
HostRetry(w) ==
    /\ rPc[w] = "loop"
    /\ rRetries[w] > 0
    /\ rRetries' = [rRetries EXCEPT ![w] = @ - 1]
    /\ UNCHANGED <<GoMaxProcs, Remotes, counter, rLeft, rPc, rIdx, rHost>>
    /\ UNCHANGED outsideHost

\* Run, lines 153-154 with the deferred host.decrement() of line 144: the
\* last attempt had exit code 0, or no retries remain.
HostReturn(w) ==
    /\ rPc[w] = "loop"
    /\ counter' = IF rHost[w] # 0
                  THEN [counter EXCEPT ![rHost[w]] = @ - 1]
                  ELSE counter
    /\ rHost' = [rHost EXCEPT ![w] = 0]
    /\ rRetries' = [rRetries EXCEPT ![w] = 0]
    /\ rPc' = [rPc EXCEPT ![w] = "idle"]
    /\ UNCHANGED <<GoMaxProcs, Remotes, rLeft, rIdx>>
    /\ UNCHANGED outsideHost

\* Runner, lines 375-377: no command is left; the worker returns.
HostExit(w) ==
    /\ rPc[w] = "idle"
    /\ rLeft = 0
    /\ rPc' = [rPc EXCEPT ![w] = "done"]
    /\ UNCHANGED <<GoMaxProcs, Remotes, counter, rLeft, rIdx, rHost, rRetries>>
    /\ UNCHANGED outsideHost

----
\* The idle values of each group of variables.
RunIdle ==
    /\ runPc = "idle" /\ optsNil = FALSE /\ optRetries = 0 /\ retries = 0
    /\ c = NoCommand /\ attempts = <<>> /\ curCmd = 0 /\ files = {} /\ garbage = {}

MainIdle ==
    /\ mainPc = "idle" /\ nCmds = 0 /\ StopOnError = FALSE /\ logSet = FALSE
    /\ stdoutCh = <<>> /\ stdoutClosed = FALSE /\ p = NoCommand /\ ExitCode = 0
    /\ fails = 0 /\ sink = <<>> /\ logLines = <<>> /\ consumed = <<>>

PipeIdle ==
    /\ Ordered = FALSE /\ NumProcs = 0 /\ nIn = 0 /\ cancelClosed = FALSE
    /\ ePc = "idle" /\ eI = 0 /\ icClosed = FALSE /\ istdout = <<>>
    /\ istdoutClosed = FALSE /\ wPc = <<>> /\ wCmd = <<>> /\ dPc = "idle"
    /\ dCh = 0 /\ closerPc = "idle" /\ outCh = <<>> /\ outClosed = FALSE
    /\ panicked = "" /\ runs = <<>> /\ takenBy = <<>> /\ chanLog = <<>>
    /\ received = <<>> /\ finished = <<>> /\ sawCancel = {} /\ lateStarts = {}

ScanIdle ==
    /\ sPc = "idle" /\ sInput = <<>> /\ sRS = <<>> /\ sStart = 0 /\ sEnd = 0
    /\ sEOF = FALSE /\ sTokens = <<>>

GenIdle ==
    /\ gPc = "idle" /\ gRecords = <<>> /\ gPos = 0 /\ gSep = FALSE /\ gNlines = 1
    /\ gDryRun = FALSE /\ gLines = <<>> /\ gSent = <<>> /\ gPrinted = <<>>

OneIdle ==
    /\ oPc = "idle" /\ oCallback = FALSE /\ oCbFails = FALSE /\ oOut = 0
    /\ oEnd = "EOF" /\ cbPc = "idle" /\ errch = <<>> /\ errchClosed = FALSE
    /\ oErr = ErrNil /\ oStarted = FALSE /\ oWaited = FALSE /\ oWaitErr = ErrNil
    /\ oTmp = NoFile /\ oPath = "" /\ oRes = NoCommand

HostIdle ==
    /\ GoMaxProcs = 0 /\ Remotes = 0 /\ counter = <<>> /\ rLeft = 0
    /\ rPc = <<>> /\ rIdx = <<>> /\ rHost = <<>> /\ rRetries = <<>>

----
\* SpecRun: one call Run(command, opts) for command 1.
InitRun ==
    /\ runPc = "first"
    /\ optsNil \in BOOLEAN
    /\ optRetries \in 0..MaxRetries
    /\ retries = 0
    /\ c = NoCommand
    /\ attempts = <<>>
    /\ curCmd = 1
    /\ files = {}
    /\ garbage = {}
    /\ MainIdle /\ PipeIdle /\ ScanIdle /\ GenIdle /\ OneIdle /\ HostIdle

NextRun ==
    \/ RunFirst /\ RecordAttempt
    \/ RunRetry /\ RecordAttempt
    \/ RunReturn
    \/ Finalize

SpecRun == InitRun /\ [][NextRun]_vars

\* SpecMain: run() of main.go, which passes args.Retry to the runner.
InitMain ==
    /\ runPc = "idle"
    /\ optsNil = FALSE
    /\ optRetries \in 0..MainRetries
    /\ retries = 0
    /\ c = NoCommand
    /\ attempts = <<>>
    /\ curCmd = 0
    /\ files = {}
    /\ garbage = {}
    /\ mainPc = "range"
    /\ nCmds \in 0..MainCmds
    /\ StopOnError \in BOOLEAN
    /\ logSet \in BOOLEAN
    /\ stdoutCh = <<>>
    /\ stdoutClosed = FALSE
    /\ p = NoCommand
    /\ ExitCode = 0
    /\ fails = 0
    /\ sink = <<>>
    /\ logLines = <<>>
    /\ consumed = <<>>
    /\ PipeIdle /\ ScanIdle /\ GenIdle /\ OneIdle /\ HostIdle

NextMain ==
    \/ RunFirst /\ UNCHANGED attempts
    \/ RunRetry /\ UNCHANGED attempts
    \/ RunReturn
    \/ Finalize
    \/ MainWorkerTake \/ MainWorkerPublish \/ MainWorkerCancel \/ MainWorkerExit
    \/ MainCloser
    \/ DrainRecv \/ DrainHandle \/ DrainCopy \/ DrainCleanup \/ DrainTrailer
    \/ MainExit

SpecMain == InitMain /\ [][NextMain]_vars

\* SpecDrain: run() of main.go with the default Retry of 0: the loop of Run
\* (process.go:149) is never entered.
InitDrain == InitMain /\ optRetries = 0

NextDrain ==
    \/ RunFirst /\ UNCHANGED attempts
    \/ RunReturn
    \/ Finalize
    \/ MainWorkerTake \/ MainWorkerPublish \/ MainWorkerCancel \/ MainWorkerExit
    \/ MainCloser
    \/ DrainRecv \/ DrainHandle \/ DrainCopy \/ DrainCleanup \/ DrainTrailer
    \/ MainExit

SpecDrain == InitDrain /\ [][NextDrain]_vars

\* Spec: Runner(commands, cancel, opts) with GOMAXPROCS workers.
Init ==
    /\ Ordered \in BOOLEAN
    /\ NumProcs \in 1..MaxProcs
    /\ nIn \in 0..MaxCmds
    /\ cancelClosed = FALSE
    /\ ePc = "recv"
    /\ eI = 0
    /\ icClosed = FALSE
    /\ istdout = <<>>
    /\ istdoutClosed = FALSE
    /\ wPc = [w \in 1..NumProcs |-> "range"]
    /\ wCmd = [w \in 1..NumProcs |-> 0]
    /\ dPc = IF Ordered THEN "range" ELSE "idle"
    /\ dCh = 0
    /\ closerPc = IF Ordered THEN "idle" ELSE "wait"
    /\ outCh = <<>>
    /\ outClosed = FALSE
    /\ panicked = ""
    /\ runs = [i \in 1..nIn |-> 0]
    /\ takenBy = [i \in 1..nIn |-> {}]
    /\ chanLog = <<>>
    /\ received = <<>>
    /\ finished = <<>>
    /\ sawCancel = {}
    /\ lateStarts = {}
    /\ RunIdle /\ MainIdle /\ ScanIdle /\ GenIdle /\ OneIdle /\ HostIdle

Next ==
    \/ EnumRecv \/ EnumPush \/ EnumCloseCommands \/ EnumCloseQueue
    \/ \E w \in Workers : WorkerRecv(w)
    \/ \E w \in Workers : RunDone(w)
    \/ \E w \in Workers : WorkerSend(w)
    \/ \E w \in Workers : WorkerCancel(w)
    \/ \E w \in Workers : WorkerExit(w)
    \/ \E w \in Workers : OSend(w)
    \/ CloserClose \/ ODrainNext \/ ODrainSend \/ ODrainCancel
    \/ Receive \/ Cancel

Spec == Init /\ [][Next]_vars

\* SpecNoCancel: Runner with a caller that never closes cancel.
NextNoCancel ==
    \/ EnumRecv \/ EnumPush \/ EnumCloseCommands \/ EnumCloseQueue
    \/ \E w \in Workers : WorkerRecv(w)
    \/ \E w \in Workers : RunDone(w)
    \/ \E w \in Workers : WorkerSend(w)
    \/ \E w \in Workers : WorkerExit(w)
    \/ \E w \in Workers : OSend(w)
    \/ CloserClose \/ ODrainNext \/ ODrainSend
    \/ Receive

SpecNoCancel == Init /\ [][NextNoCancel]_vars

\* SpecLive: the same with a caller that keeps receiving, commands that
\* terminate, and a scheduler that runs some goroutine as long as one can
\* run; the behaviours are followed to their end for up to LiveCmds commands.
InitLive == Init /\ nIn <= LiveCmds

SpecLive == InitLive /\ [][NextNoCancel]_vars /\ WF_vars(NextNoCancel)

\* SpecScan: the scanner reads stdin with RS set.
InitScan ==
    /\ sPc = "scan"
    /\ sInput \in Strings(MaxInput)
    /\ sRS \in Separators
    /\ sStart = 0
    /\ sEnd = 0
    /\ sEOF = FALSE
    /\ sTokens = <<>>
    /\ RunIdle /\ MainIdle /\ PipeIdle /\ GenIdle /\ OneIdle /\ HostIdle

NextScan == ScanToken \/ ScanRead \/ ScanStop

SpecScan == InitScan /\ [][NextScan]_vars

\* SpecGen: genCommands with the arguments main() passes on: it rejects a
\* split expression together with Nlines > 1 (line 62) and sets the split
\* expression \s+ when there is none and Nlines is 1 (line 66).
InitGen ==
    /\ gPc = "scan"
    /\ gRecords \in UNION {[1..k -> Records] : k \in 0..MaxRecs}
    /\ gPos = 0
    /\ gNlines \in 1..MaxNlines
    /\ gSep = (gNlines = 1)
    /\ gDryRun \in BOOLEAN
    /\ gLines = <<>>
    /\ gSent = <<>>
    /\ gPrinted = <<>>
    /\ RunIdle /\ MainIdle /\ PipeIdle /\ ScanIdle /\ OneIdle /\ HostIdle

NextGen == GenRecord \/ GenFatal \/ GenClose

SpecGen == InitGen /\ [][NextGen]_vars

\* SpecOne: one call oneRun(command, callback, env, nil).
InitOne ==
    /\ oPc = "pipe"
    /\ oCallback \in BOOLEAN
    /\ oCbFails \in (IF oCallback THEN BOOLEAN ELSE {FALSE})
    /\ oOut \in 0..MaxOut
    /\ oEnd \in {"EOF", "err"}
    /\ cbPc = "idle"
    /\ errch = <<>>
    /\ errchClosed = FALSE
    /\ oErr = ErrNil
    /\ oStarted = FALSE
    /\ oWaited = FALSE
    /\ oWaitErr = ErrNil
    /\ oTmp = NoFile
    /\ oPath = ""
    /\ oRes = NoCommand
    /\ RunIdle /\ MainIdle /\ PipeIdle /\ ScanIdle /\ GenIdle /\ HostIdle

NextOne ==
    \/ OnePipe \/ OneCallbackDone \/ OneStart \/ OnePeek
    \/ OneWaitSmall \/ OneReturnSmall
    \/ OneTempFile \/ OneCopy \/ OneSeekWait \/ OneReturnLarge

SpecOne == InitOne /\ [][NextOne]_vars

\* SpecHost: the workers of Runner call Run with remote hosts configured.
InitHost ==
    /\ GoMaxProcs \in 1..MaxProcs
    /\ Remotes \in 1..MaxRemotes
    /\ counter = [r \in 1..Remotes |-> 0]
    /\ rLeft \in 0..MaxCmds
    /\ rPc = [w \in 1..GoMaxProcs |-> "idle"]
    /\ rIdx = [w \in 1..GoMaxProcs |-> 1]
    /\ rHost = [w \in 1..GoMaxProcs |-> 0]
    /\ rRetries = [w \in 1..GoMaxProcs |-> 0]
    /\ RunIdle /\ MainIdle /\ PipeIdle /\ ScanIdle /\ GenIdle /\ OneIdle

NextHost ==
    \/ \E w \in HostWorkers : HostTake(w)
    \/ \E w \in HostWorkers : HostScan(w)
    \/ \E w \in HostWorkers : HostIncrement(w)
    \/ \E w \in HostWorkers : HostFirst(w)
    \/ \E w \in HostWorkers : HostRetry(w)
    \/ \E w \in HostWorkers : HostReturn(w)
    \/ \E w \in HostWorkers : HostExit(w)

SpecHost == InitHost /\ [][NextHost]_vars

----
\* Claims about Runner and oRunner (Spec).

\* How often command i occurs in a sequence of Commands.
Count(seq, i) == Cardinality({k \in 1..Len(seq) : seq[k] = i})

\* The Commands delivered on stdout: received by the caller, or in the buffer.
Delivered == received \o outCh

\* C1: in ordered mode, with no cancellation, the k-th Command delivered on
\* stdout is that of the k-th emitted command, whatever the number of workers
\* and the order in which the commands finish, and when stdout is closed all
\* of them were delivered.
C1_OrderedOutput ==
    (Ordered /\ ~cancelClosed) =>
        /\ \A k \in 1..Len(chanLog) : chanLog[k] = k
        /\ Delivered = chanLog
        /\ outClosed => Len(chanLog) = nIn
        /\ Alive

\* C1's case: two workers, the second command finished first, and all
\* three were delivered and received in emission order.
C1_Witness ==
    /\ Ordered /\ ~cancelClosed /\ NumProcs = 2 /\ nIn = 3
    /\ finished = <<2, 1, 3>>
    /\ outClosed
    /\ received = <<1, 2, 3>>

\* C2: with no cancellation, in both modes, a command is taken by at most one
\* worker and passed to Run at most once, at most one Command is delivered
\* for it and only after its Run; when stdout is closed every command was
\* taken by exactly one worker, run exactly once and delivered exactly once.
C2_ExactlyOnce ==
    ~cancelClosed =>
        /\ Alive
        /\ \A i \in 1..nIn :
            /\ runs[i] <= 1
            /\ Cardinality(takenBy[i]) = runs[i]
            /\ Count(Delivered, i) <= runs[i]
            /\ Count(chanLog, i) = Count(Delivered, i)
            /\ outClosed => runs[i] = 1 /\ Count(Delivered, i) = 1
        /\ Len(Delivered) <= nIn

\* C2's case: unordered mode, two workers that each took a command, three
\* commands delivered in the order they finished, which is not the order
\* of emission.
C2_Witness ==
    /\ ~Ordered /\ ~cancelClosed /\ NumProcs = 2 /\ nIn = 3
    /\ outClosed
    /\ received = <<2, 1, 3>>
    /\ takenBy[1] # takenBy[2]
    /\ \A i \in 1..nIn : runs[i] = 1

\* C7: a goroutine that observed cancellation at its publish point (a worker
\* of Runner at its select, the goroutine of oRunner that publishes for the
\* workers at its select) stops the loop: no command is started after that
\* by that worker, or by any worker of oRunner.
C7_NoStartAfterCancelSeen == lateStarts = {}

\* The commands inside Run: started and not yet returned.
Executing == {i \in 1..nIn : runs[i] > Count(finished, i)}

\* C16: in both modes at most NumProcs commands are inside Run at a time, and
\* each of them was handed by enumerate to a worker that was free to receive
\* it and now runs it.
C16_AtMostPExecuting ==
    /\ Cardinality(Executing) <= NumProcs
    /\ \A i \in Executing :
        \E w \in Workers : wPc[w] = "run" /\ wCmd[w] = i /\ takenBy[i] = {w}

\* C16's case: both of two workers are inside Run and enumerate holds the
\* third command, which no worker is free to receive.
C16_Witness ==
    /\ NumProcs = 2 /\ nIn = 3
    /\ Executing = {1, 2}
    /\ ePc = "send" /\ eI = 2
    /\ \A w \in Workers : ~WorkerFree(w)

\* The commands that finished executing and were not yet sent on stdout.
FinishedUnreleased ==
    {i \in 1..nIn : Count(finished, i) > 0 /\ Count(chanLog, i) = 0}

\* enumerate cannot go on: istdout is full, or no worker is free.
GeneratorBlocked ==
    \/ ePc = "push" /\ Len(istdout) = WaitingMultiplier * NumProcs
    \/ ePc = "send" /\ \A w \in Workers : ~WorkerFree(w)

\* With several workers, only the command the drain goroutine waits for is
\* still executing, and enumerate is blocked: nothing moves until that
\* command finishes.
OnlySlowestRuns ==
    /\ Ordered /\ Alive /\ ~cancelClosed
    /\ NumProcs > 1
    /\ GeneratorBlocked
    /\ \E w \in Workers :
        /\ wPc[w] = "run" /\ dPc = "recv" /\ dCh = wCmd[w]
        /\ \A v \in Workers \ {w} : wPc[v] # "run"

\* C15: in ordered mode finished commands accumulate behind a slower
\* predecessor up to the capacity of the ordered queue: when only the
\* slowest command still runs and enumerate is blocked, it is blocked on
\* the full queue of WaitingMultiplier * P slots, and WaitingMultiplier * P - 1
\* finished commands wait unreleased.
C15_AccumulateToQueueCapacity ==
    OnlySlowestRuns =>
        /\ ePc = "push" /\ Len(istdout) = WaitingMultiplier * NumProcs
        /\ Cardinality(FinishedUnreleased) = WaitingMultiplier * NumProcs - 1

\* C18: in unordered mode no close of the closed stdout and no send on the
\* closed stdout happens, cancellation included.
C18_NoChannelPanic == ~Ordered => panicked = ""

\* Everything of the pipeline has ended and every result was received.
PipelineDone ==
    /\ Alive
    /\ outClosed /\ outCh = <<>>
    /\ Len(received) = nIn /\ \A i \in 1..nIn : Count(received, i) = 1
    /\ ePc = "done"
    /\ \A w \in Workers : wPc[w] = "done"
    /\ IF Ordered THEN dPc = "done" ELSE closerPc = "done"

\* C17: with a caller that keeps receiving and never cancels, the pipeline
\* reaches the state where stdout is closed, every result was delivered and
\* every goroutine has ended, and stdout is not closed before every result
\* was sent on it.
C17_Terminates ==
    /\ <>PipelineDone
    /\ [](outClosed => Len(chanLog) = nIn)

\* C17's case: two commands and two workers in ordered mode; the second
\* command finished first, and everything has ended.
C17_Witness ==
    /\ PipelineDone /\ Ordered /\ NumProcs = 2 /\ nIn = 2
    /\ received = <<1, 2>>
    /\ finished = <<2, 1>>

----
\* Claims about process.Run (SpecRun).

ExitsOf(seq) == [i \in 1..Len(seq) |-> CommandExitCode(seq[i])]

\* C4: Run makes at most R+1 attempts, makes a further attempt only after an
\* attempt with a non-zero exit code and while retries remain, stops at the
\* first attempt with exit code 0, and returns the Command of the last
\* attempt it made.
C4_RunRetries ==
    LET n == Len(attempts) IN
    /\ n <= RunR + 1
    /\ \A i \in 1..(n - 1) : ExitsOf(attempts)[i] # 0
    /\ runPc \in {"loop", "ret"} => n >= 1 /\ retries = RunR - (n - 1) /\ c = attempts[n]
    /\ runPc = "ret" => CommandExitCode(c) = 0 \/ n = RunR + 1

\* C4's case: fail, fail, succeed under Retries = 2 returned the third
\* attempt, a success served from its temp file.
C4_Witness ==
    /\ runPc = "ret"
    /\ ~optsNil /\ optRetries = 2
    /\ Len(attempts) = 3
    /\ ExitsOf(attempts) = <<2, -1, 0>>
    /\ c = attempts[3] /\ c.tmp = <<1, 3>>

----
\* Claims about run() of main.go (SpecMain).

\* The drain loop is over.
LoopEnded == mainPc \in {"after", "returned", "exited"}

ConsumedExits == {CommandExitCode(consumed[i]) : i \in 1..Len(consumed)}

SetMax(S) == CHOOSE x \in S : \A y \in S : y <= x

\* C3: once the drain loop has ended, ExitCode is 0 exactly when every
\* consumed result had exit code 0, and is otherwise the maximum of the
\* consumed results' exit codes.
C3_ExitCodeIsMax ==
    LoopEnded =>
        /\ ExitCode = 0 <=> ConsumedExits \subseteq {0}
        /\ ~(ConsumedExits \subseteq {0}) => ExitCode = SetMax(ConsumedExits)

\* C5: whenever the drain is done with a result (it is about to take the
\* next one, or has left the loop), the temp file of every result it
\* consumed is removed.
C5_TmpReleasedByDrain ==
    (mainPc = "range" \/ LoopEnded) =>
        \A i \in 1..Len(consumed) : consumed[i].tmp \notin files

\* C6: when the process has exited, no temp file of any attempt exists.
C6_NoTmpAtExit == mainPc = "exited" => files = {}

\* C8: without stop-on-error the drain consumes every delivered result and
\* copies its stdout, whatever the exit codes; with stop-on-error it leaves
\* the loop at the first consumed result with a non-zero exit code and
\* copies neither that result nor a later one.
C8_StopOnlyOnStopOnError ==
    LET n == Len(consumed)
        failing(i) == CommandExitCode(consumed[i]) # 0
        cmds(k) == [i \in 1..k |-> consumed[i].cmd]
    IN
    /\ ~StopOnError =>
        /\ mainPc # "panic"
        /\ (mainPc = "range" \/ LoopEnded) => sink = cmds(n)
        /\ LoopEnded => stdoutClosed /\ stdoutCh = <<>>
    /\ StopOnError =>
        /\ \A i \in 1..(n - 1) : ~failing(i)
        /\ (mainPc \in {"copy", "cleanup"}) => ~failing(n)
        /\ (LoopEnded /\ n > 0 /\ failing(n)) => sink = cmds(n - 1)
        /\ (LoopEnded /\ (n = 0 \/ ~failing(n))) =>
                sink = cmds(n) /\ stdoutClosed /\ stdoutCh = <<>>

\* The consumed results with a non-zero exit code.
Failures == {i \in 1..Len(consumed) : CommandExitCode(consumed[i]) # 0}

\* C13: with a command log, the trailer written after the drain loop is
\* SUCCESS exactly when no consumed result had a non-zero exit code, and is
\* otherwise FAILED with the number of such results.
C13_TrailerMatchesFailures ==
    (logSet /\ mainPc \in {"returned", "exited"}) =>
        LET t == logLines[Len(logLines)]
            n == Cardinality(Failures)
        IN /\ t.trailer = "SUCCESS" <=> n = 0
           /\ n > 0 => t = [trailer |-> "FAILED", n |-> n]

\* C14: no step lowers ExitCode, and a step that changes it is the drain
\* loop's handling of a result with a non-zero exit code.
C14_ExitCodeMonotoneSingleWriter ==
    [][/\ ExitCode' >= ExitCode
       /\ ExitCode' # ExitCode =>
            /\ mainPc = "handle"
            /\ CommandExitCode(p) # 0
            /\ UNCHANGED <<runPc, c, curCmd, stdoutCh, stdoutClosed>>]_vars

\* C14's case: the drain consumed a result with exit code 2 and then one
\* with exit code 1, and ExitCode is still 2.
C14_Witness ==
    /\ mainPc = "range"
    /\ Len(consumed) = 2
    /\ CommandExitCode(consumed[1]) = 2
    /\ CommandExitCode(consumed[2]) = 1
    /\ ExitCode = 2 /\ fails = 2

----
\* Claims about the scanner (SpecScan).

RECURSIVE Concat(_)
Concat(seqs) == IF seqs = <<>> THEN <<>> ELSE Head(seqs) \o Concat(Tail(seqs))

\* t ends with sep, and that is the only occurrence of sep in t.
EndsWithOne(t, sep) ==
    /\ Len(t) >= Len(sep)
    /\ Index(t, sep) = Len(t) - Len(sep)

\* C9: when Scan has returned false, the records concatenated in order are
\* the input, every record but the last ends with the one occurrence of RS
\* in it, and the last one ends with its one occurrence of RS or holds none.
C9_RecordsPartitionInput ==
    sPc = "done" =>
        /\ Concat(sTokens) = sInput
        /\ \A k \in 1..(Len(sTokens) - 1) : EndsWithOne(sTokens[k], sRS)
        /\ Len(sTokens) > 0 =>
            \/ EndsWithOne(sTokens[Len(sTokens)], sRS)
            \/ Index(sTokens[Len(sTokens)], sRS) = -1

----
\* Claims about genCommands (SpecGen).

\* The command strings genCommands emitted through handleCommand.
Emitted == IF gDryRun THEN gPrinted ELSE gSent

Min(a, b) == IF a < b THEN a ELSE b

\* The g-th group (g = 1, 2, ...) of n records among the first k.
Group(g, n, k) == SubSeq(gRecords, (g - 1) * n + 1, Min(g * n, k))

\* C10: in N-line mode genCommands emits, for the k records read, the groups
\* of N consecutive records in input order, each bound record by record and
\* joined by FS as Line; when the input has ended there are ceil(k / N)
\* commands, the last one holding the k mod N remaining records when N does
\* not divide k, and none for k = 0.
C10_NLineGroups ==
    ~gSep =>
        LET k == gPos
            N == gNlines
            n == Len(Emitted)
        IN
        /\ \A g \in 1..n :
            /\ Emitted[g].toks = Group(g, N, k)
            /\ Emitted[g].Line = Join(Group(g, N, k), FS)
            /\ Len(Emitted[g].toks) = IF g * N <= k THEN N ELSE k % N
        /\ gPc = "scan" => n = k \div N /\ gLines = SubSeq(gRecords, n * N + 1, k)
        /\ gPc = "done" => k = Len(gRecords) /\ n = (k + N - 1) \div N

\* C10's case: four records in groups of three: one full group, then the
\* partial group of the one record left.
C10_Witness ==
    /\ ~gSep /\ gNlines = 3 /\ gPc = "done" /\ ~gDryRun
    /\ gRecords = << <<"a">>, <<>>, <<"b", " ", "a">>, <<"a">> >>
    /\ Len(gSent) = 2
    /\ gSent[1].Line = <<"a", " ", " ", "b", " ", "a">>
    /\ gSent[2] = [toks |-> << <<"a">> >>, Line |-> <<"a">>]

----
\* Claims about oneRun (SpecOne).

\* The exit code of the child as cmd.Wait() reported it.
ChildExitCode == CommandExitCode(newCommand("nil", NoFile, 1, oWaitErr))

\* C11 as claimed: when a callback is supplied and fails, the returned
\* Command has Err set to the callback's error whatever the child's outcome,
\* and its exit code is the one the child returned.
C11_CallbackErrKeepsChildExit ==
    (oPc = "ret" /\ oCallback /\ oCbFails /\ oWaited) =>
        /\ oRes.err = ErrCallback
        /\ CommandExitCode(oRes) = ChildExitCode

\* C11 as amended: when a callback is supplied and fails and oneRun waited
\* for the child, then if cmd.Wait() returned nil the returned Command has
\* Err set to the callback's error and its exit code is UnknownExit; if
\* cmd.Wait() returned an error, Err is that error, the exit code is the
\* child's, and the callback's error is not reported.
C11_CallbackErrOnlyAfterCleanWait ==
    (oPc = "ret" /\ oCallback /\ oCbFails /\ oWaited) =>
        IF oWaitErr = ErrNil
        THEN oRes.err = ErrCallback /\ CommandExitCode(oRes) = UnknownExit
        ELSE oRes.err = oWaitErr /\ CommandExitCode(oRes) = ChildExitCode

\* C11's case: a large output, the child exited 0, the callback failed:
\* Err is the callback's error and the exit code is 1.
C11_Witness ==
    /\ oPc = "ret" /\ oCallback /\ oCbFails /\ oWaited
    /\ oWaitErr = ErrNil
    /\ oRes = newCommand("tmp", <<1, 1>>, 1, ErrCallback)
    /\ CommandExitCode(oRes) = 1

\* C12: an attempt whose output is at most BufferSize bytes long, BufferSize
\* itself included, is served from memory and creates no temp file; only an
\* output strictly longer than BufferSize takes the temp-file path.
C12_SpillOnlyAboveBufferSize ==
    (oPath # "" /\ oEnd = "EOF") =>
        /\ oOut <= BufferSize =>
            /\ oPath = "mem"
            /\ oTmp = NoFile
            /\ oPc = "ret" => oRes.tmp = NoFile
        /\ oPath = "spill" => oOut > BufferSize

\* C20: when oneRun returns after cmd.Start() succeeded, cmd.Wait() was
\* called.
C20_StartedChildIsWaited == (oPc = "ret" /\ oStarted) => oWaited

----
\* Claims about Run with remote hosts (SpecHost).

\* C19: no remote's in-flight counter ever exceeds perHost, and when every
\* worker has returned every counter is back at 0.
C19_CounterWithinPerHost ==
    \A r \in 1..Remotes :
        /\ counter[r] <= perHost
        /\ (\A w \in HostWorkers : rPc[w] = "done") => counter[r] = 0

====
